---- MODULE Spec2Model ----
(***************************************************************************)
(* Protocol fee allocator: the initial per-pool allocation and the         *)
(* two-stage redistribution of FeeAllocator.redistribute_fees.             *)
(*                                                                         *)
(* USD amounts are Decimals in the program.  Here an amount is an integer  *)
(* number of USD and a ratio (a share, a weight, a percentage) is an       *)
(* integer number of 1/RatioScale; every product and quotient is rounded   *)
(* half-even to that grid, as Decimal rounds to its context precision.     *)
(***************************************************************************)
EXTENDS Integers, Sequences, FiniteSets, TLC

(***************************************************************************)
(* Decimal arithmetic                                                      *)
(***************************************************************************)
\* the unit of a ratio: 1.0 == RatioScale
RatioScale == 1000000

\* <<q, r>> with a * b = q * c + r and 0 <= r < c, three digits of b at a
\* time so that no intermediate value leaves the 32-bit integers
\* (for c <= RatioScale)
RECURSIVE MulDivQR(_, _, _)
MulDivQR(a, b, c) ==
    IF b = 0 THEN <<0, 0>>
    ELSE LET h == MulDivQR(a, b \div 1000, c)
             d == b % 1000
             t == 1000 * h[2] + (a % c) * d
         IN  <<1000 * h[1] + (a \div c) * d + (t \div c), t % c>>

\* a * b / c rounded half-even (decimal.ROUND_HALF_EVEN, the default context)
RoundHalfEven(a, b, c) ==
    LET qr == MulDivQR(a, b, c)
        q  == qr[1]
        r  == qr[2]
    IN  IF 2 * r > c \/ (2 * r = c /\ q % 2 = 1) THEN q + 1 ELSE q

\* amount * ratio, or ratio * ratio
DecimalMul(x, ratio) == RoundHalfEven(x, ratio, RatioScale)

\* amount / amount, as a ratio
DecimalDiv(x, y) == RoundHalfEven(x, RatioScale, y)

Min(a, b) == IF a <= b THEN a ELSE b

RECURSIVE SumSeq(_)
SumSeq(s) == IF s = <<>> THEN 0 ELSE Head(s) + SumSeq(Tail(s))

\* [f(s[1]), ..., f(s[n])] as the list comprehensions of the program build it
MapSeq(f(_), s) == [i \in 1..Len(s) |-> f(s[i])]

\* the threshold of return_zero_if_dust is 1E-20, far below one unit of the
\* grid: a value is under it iff it is not positive
IsDust(v) == v <= 0

\* @return_zero_if_dust(): zero when the Decimal attribute the property reads
\* is dust, or when the result is not above the threshold
ReturnZeroIfDust(read, result) ==
    IF IsDust(read) THEN 0 ELSE IF result > 0 THEN result ELSE 0

(***************************************************************************)
(* Inputs                                                                  *)
(***************************************************************************)
\* the keys of input_fees, in the order all_chains lists them
ChainNames == <<"mainnet">>

\* most pools a chain has
MaxPools == 3

\* earned fees of a pool over the period (total_earned_fees_usd_twap)
EarnedFees == {0, 5000, 15000, 80000}

\* fees collected on a chain (input_fees)
FeesCollected == {0, 4000, 100000}

\* protocol_fees_constants.json
FeeConfigs ==
    [min_aura_incentive        : {0, 15000},
     min_vote_incentive_amount : {0, 5000},
     dao_share_pct             : {RatioScale \div 20},
     vebal_share_pct           : {RatioScale \div 20}]

\* calculate_aura_vebal_share: the fraction of incentives routed to aura
AuraVebalShares == {RatioScale \div 2, (RatioScale \div 10) * 9}

\* voting_pool_override of pool_incentives_overrides.json
VotingPools == {"bal", "aura"}

PoolId(c, i) == 10 * c + i

\* RethWethOverride.pool_id, the one key of the override registry: the pool
\* is on mainnet, and the model lists it first when mainnet has pools
RethWethPoolId == PoolId(1, 1)

PoolFeeDataOf(c, earned) ==
    [i \in 1..Len(earned) |-> [pool_id |-> PoolId(c, i), earned |-> earned[i]]]

EarnedLists == UNION {[1..n -> EarnedFees] : n \in 0..MaxPools}

\* market_override of pool_incentives_overrides.json
Markets == {"aura", "bal"}

VARIABLES
    pc,               \* position in main(): constructed, allocated, stage1,
                      \* relaxed, done, raised; of a CorePool: fetched,
                      \* sorted, earned
    error,            \* the exception that ended the run, or "none"
    fee_config,       \* CorePoolRunConfig.fee_config
    aura_vebal_share, \* CorePoolRunConfig.aura_vebal_share
    overrides,        \* the override registry: pool_id -> voting_pool
    chains,           \* all_chains: name, fees_collected, pool_fee_data
    core_pools,       \* per chain, chain.core_pools
    debt_to_aura,     \* per chain, debt_to_aura of the last _handle_aura_min
    debt_repaid,      \* per chain, debt_repaid of the last _handle_aura_min
    market,           \* RethWethOverride.market
    core_pool,        \* a CorePool: bpt_price, tokens_price, start_snap, end_snap
    pool_earned       \* what the earnings properties of core_pool returned

vars == <<pc, error, fee_config, aura_vebal_share, overrides, chains,
          core_pools, debt_to_aura, debt_repaid, market, core_pool, pool_earned>>

ChainIdx == DOMAIN chains

\* the override registry: no entry, or the entry of RethWethOverride
Registries == {<<>>} \cup {(RethWethPoolId :> v) : v \in VotingPools}

\* no CorePool is under evaluation in a run of main()
NoCorePool == <<>>

\* nothing returned yet
NoEarned == [earned_bpt_fee_usd |-> 0, earned_tokens_fee_usd |-> 0,
             total_earned_fees_usd |-> 0]

\* the state after FeeAllocator(input_fees, date_range) and
\* set_core_pool_chains_data(), set_aura_vebal_share(), for the chains named
\* and inputs drawn from the sets given
InitRun(names, fees_set, lists, cfgs, shares, regs, markets) ==
    /\ pc = "constructed"
    /\ error = "none"
    /\ fee_config \in cfgs
    /\ aura_vebal_share \in shares
    /\ \E fees \in [1..Len(names) -> fees_set], earned \in [1..Len(names) -> lists] :
          chains = [c \in 1..Len(names) |->
                      [name           |-> names[c],
                       fees_collected |-> fees[c],
                       pool_fee_data  |-> PoolFeeDataOf(c, earned[c])]]
    /\ overrides \in regs
    /\ market \in markets
    /\ core_pools = [c \in 1..Len(names) |-> <<>>]
    /\ debt_to_aura = [c \in 1..Len(names) |-> 0]
    /\ debt_repaid = [c \in 1..Len(names) |-> 0]
    /\ core_pool = NoCorePool
    /\ pool_earned = NoEarned

\* the runs of main() over mainnet; redistribute_fees reads the voting pool
\* of an override and never its market
Init ==
    InitRun(ChainNames, FeesCollected, EarnedLists, FeeConfigs, AuraVebalShares,
            Registries, {"aura"})

(***************************************************************************)
(* Initial allocation                                                      *)
(***************************************************************************)
\* CorePoolChain.total_earned_fees_usd_twap
total_earned_fees_usd(chain) ==
    SumSeq(MapSeq(LAMBDA d : d.earned, chain.pool_fee_data))

\* the share as one over the number of pools of the chain
earned_fee_share_of_pool_count(data, chain) ==
    RatioScale \div Len(chain.pool_fee_data)

earned_fee_share_of_chain_usd(data, chain) ==
    IF IsDust(data.earned) THEN 0
    ELSE ReturnZeroIfDust(data.earned,
                          DecimalDiv(data.earned, total_earned_fees_usd(chain)))

total_to_incentives_usd(data, chain, cfg) ==
    LET share == earned_fee_share_of_chain_usd(data, chain)
        to_distribute_to_incentives ==
            DecimalMul(chain.fees_collected,
                       RatioScale - cfg.dao_share_pct - cfg.vebal_share_pct)
    IN  ReturnZeroIfDust(share, DecimalMul(to_distribute_to_incentives, share))

to_aura_incentives_usd(data, chain, cfg, share) ==
    LET total == total_to_incentives_usd(data, chain, cfg)
    IN  ReturnZeroIfDust(total, DecimalMul(total, share))

to_bal_incentives_usd(data, chain, cfg, share) ==
    LET total == total_to_incentives_usd(data, chain, cfg)
    IN  ReturnZeroIfDust(total, DecimalMul(total, RatioScale - share))

to_dao_usd(data, chain, cfg) ==
    LET share == earned_fee_share_of_chain_usd(data, chain)
    IN  ReturnZeroIfDust(share,
            DecimalMul(DecimalMul(chain.fees_collected, share), cfg.dao_share_pct))

to_vebal_usd(data, chain, cfg) ==
    LET share == earned_fee_share_of_chain_usd(data, chain)
    IN  ReturnZeroIfDust(share,
            DecimalMul(DecimalMul(chain.fees_collected, share), cfg.vebal_share_pct))

\* redirected_incentives_usd of a new pool
InitialRedirected == 0

\* overrides.get(pool_id): the voting pool the override names, or "none"
OverrideOf(reg, pool_id) ==
    IF pool_id \in DOMAIN reg THEN reg[pool_id] ELSE "none"

\* PoolFee(data, chain)
PoolFee(data, chain, cfg, share, reg) ==
    [pool_id                       |-> data.pool_id,
     total_earned_fees_usd_twap    |-> data.earned,
     override                      |-> OverrideOf(reg, data.pool_id),
     earned_fee_share_of_chain_usd |-> earned_fee_share_of_chain_usd(data, chain),
     total_to_incentives_usd       |-> total_to_incentives_usd(data, chain, cfg),
     to_aura_incentives_usd        |-> to_aura_incentives_usd(data, chain, cfg, share),
     to_bal_incentives_usd         |-> to_bal_incentives_usd(data, chain, cfg, share),
     to_dao_usd                    |-> to_dao_usd(data, chain, cfg),
     to_vebal_usd                  |-> to_vebal_usd(data, chain, cfg),
     redirected_incentives_usd     |-> InitialRedirected]

\* PoolFee(data, chain) for the i-th entry of chain.pool_fee_data
InitialPool(c, i) ==
    PoolFee(chains[c].pool_fee_data[i], chains[c], fee_config, aura_vebal_share,
            overrides)

\* [PoolFee(data, chain) for data in chain.pool_fee_data]
InitialPools(c) == [i \in 1..Len(chains[c].pool_fee_data) |-> InitialPool(c, i)]

set_initial_pool_allocation ==
    /\ pc = "constructed"
    /\ core_pools' = [c \in ChainIdx |-> InitialPools(c)]
    /\ pc' = "allocated"
    /\ UNCHANGED <<error, fee_config, aura_vebal_share, overrides, chains,
                   debt_to_aura, debt_repaid, market, core_pool, pool_earned>>

(***************************************************************************)
(* Stage 1: redistribute_fees, the loop over the chains                    *)
(***************************************************************************)
\* p.total_to_incentives_usd < min_amount
IsBelow(p, cfg) == p.total_to_incentives_usd < cfg.min_vote_incentive_amount

\* RedistributePool without "pool.to_aura_incentives_usd = Decimal(0)"
RedistributePoolKeepsAura(p) ==
    [p EXCEPT !.redirected_incentives_usd = @ - p.total_to_incentives_usd,
              !.to_bal_incentives_usd     = 0,
              !.total_to_incentives_usd   = 0]

\* RedistributePool without the decrement of redirected_incentives_usd
RedistributePoolNoRedirect(p) ==
    [p EXCEPT !.to_aura_incentives_usd    = 0,
              !.to_bal_incentives_usd     = 0,
              !.total_to_incentives_usd   = 0]

\* the body of "for pool in pools_to_redistribute"
RedistributePool(p) ==
    [p EXCEPT !.redirected_incentives_usd = @ - p.total_to_incentives_usd,
              !.to_aura_incentives_usd    = 0,
              !.to_bal_incentives_usd     = 0,
              !.total_to_incentives_usd   = 0]

\* Weight with the pool's incentive budget for its earned fees
WeightByIncentives(p, total_weight) ==
    DecimalDiv(p.total_to_incentives_usd, total_weight)

\* weight = pool.total_earned_fees_usd_twap / total_weight
Weight(p, total_weight) == DecimalDiv(p.total_earned_fees_usd_twap, total_weight)

\* ReceivePool with the aura share applied to the bal amount as well
ReceivePoolBalByAuraShare(p, total_fees_to_redistribute, total_weight, share) ==
    LET total == DecimalMul(total_fees_to_redistribute, Weight(p, total_weight))
    IN  [p EXCEPT !.total_to_incentives_usd   = @ + total,
                  !.redirected_incentives_usd = @ + total,
                  !.to_aura_incentives_usd    = @ + DecimalMul(total, share),
                  !.to_bal_incentives_usd     = @ + DecimalMul(total, share)]

\* the body of "for pool in pools_to_receive"
ReceivePool(p, total_fees_to_redistribute, total_weight, share) ==
    LET total == DecimalMul(total_fees_to_redistribute, Weight(p, total_weight))
    IN  [p EXCEPT !.total_to_incentives_usd   = @ + total,
                  !.redirected_incentives_usd = @ + total,
                  !.to_aura_incentives_usd    = @ + DecimalMul(total, share),
                  !.to_bal_incentives_usd     = @ + DecimalMul(total, RatioScale - share)]

\* RecomputeShares with the DAO and veBAL amounts taken from the pool's
\* incentive total instead of the chain's collected fees
RecomputeSharesOfIncentives(pools, chain, cfg) ==
    LET total_to_incentives ==
            SumSeq(MapSeq(LAMBDA p : p.total_to_incentives_usd, pools))
        Recomputed(p) ==
            IF total_to_incentives > 0
            THEN LET share == DecimalDiv(p.total_to_incentives_usd, total_to_incentives)
                 IN  [p EXCEPT
                        !.earned_fee_share_of_chain_usd = share,
                        !.to_dao_usd =
                            DecimalMul(p.total_to_incentives_usd, cfg.dao_share_pct),
                        !.to_vebal_usd =
                            DecimalMul(p.total_to_incentives_usd, cfg.vebal_share_pct)]
            ELSE [p EXCEPT !.earned_fee_share_of_chain_usd = 0,
                           !.to_dao_usd = 0,
                           !.to_vebal_usd = 0]
    IN  MapSeq(Recomputed, pools)

\* RecomputeShares with the share recomputed and the DAO and veBAL amounts
\* left as the initial allocation set them
RecomputeSharesKeepsDaoVebal(pools, chain, cfg) ==
    LET total_to_incentives ==
            SumSeq(MapSeq(LAMBDA p : p.total_to_incentives_usd, pools))
        Recomputed(p) ==
            IF total_to_incentives > 0
            THEN [p EXCEPT !.earned_fee_share_of_chain_usd =
                              DecimalDiv(p.total_to_incentives_usd, total_to_incentives)]
            ELSE [p EXCEPT !.earned_fee_share_of_chain_usd = 0]
    IN  MapSeq(Recomputed, pools)

\* the closing loop of the chain: shares, DAO and veBAL amounts from the new
\* incentive totals
RecomputeShares(pools, chain, cfg) ==
    LET total_to_incentives ==
            SumSeq(MapSeq(LAMBDA p : p.total_to_incentives_usd, pools))
        Recomputed(p) ==
            IF total_to_incentives > 0
            THEN LET share == DecimalDiv(p.total_to_incentives_usd, total_to_incentives)
                 IN  [p EXCEPT
                        !.earned_fee_share_of_chain_usd = share,
                        !.to_dao_usd =
                            DecimalMul(DecimalMul(chain.fees_collected, share),
                                       cfg.dao_share_pct),
                        !.to_vebal_usd =
                            DecimalMul(DecimalMul(chain.fees_collected, share),
                                       cfg.vebal_share_pct)]
            ELSE [p EXCEPT !.earned_fee_share_of_chain_usd = 0,
                           !.to_dao_usd = 0,
                           !.to_vebal_usd = 0]
    IN  MapSeq(Recomputed, pools)

\* the chain is never skipped: the guard is missing
SkipsChainNever(pools, cfg) == FALSE

\* "if not pools_to_receive: continue"
SkipsChain(pools, cfg) == \A i \in 1..Len(pools) : IsBelow(pools[i], cfg)

\* the sum over every pool of the chain, eligible or not
TotalWeightOfAllPools(pools, cfg) ==
    SumSeq(MapSeq(LAMBDA p : p.total_earned_fees_usd_twap, pools))

\* total_weight = sum(p.total_earned_fees_usd_twap for p in pools_to_receive)
TotalWeight(pools, cfg) ==
    SumSeq(MapSeq(LAMBDA p : IF IsBelow(p, cfg) THEN 0
                             ELSE p.total_earned_fees_usd_twap,
                  pools))

\* one iteration of "for chain in self.run_config.all_chains": the pools of
\* the chain afterwards, and whether the division by total_weight raised
Stage1Chain(pools, chain, cfg, share) ==
    LET below(p) == IsBelow(p, cfg)
        total_fees_to_redistribute ==
            SumSeq(MapSeq(LAMBDA p : IF below(p) THEN p.total_to_incentives_usd ELSE 0,
                          pools))
        total_weight == TotalWeight(pools, cfg)
        zeroed == MapSeq(LAMBDA p : IF below(p) THEN RedistributePool(p) ELSE p, pools)
        received ==
            MapSeq(LAMBDA p : IF below(p) THEN RedistributePool(p)
                              ELSE ReceivePool(p, total_fees_to_redistribute,
                                               total_weight, share),
                   pools)
    IN  IF SkipsChain(pools, cfg)
        THEN [pools |-> pools, raised |-> FALSE]
        ELSE IF total_weight = 0
        THEN [pools |-> zeroed, raised |-> TRUE]
        ELSE [pools |-> RecomputeShares(received, chain, cfg), raised |-> FALSE]

\* the first chain whose iteration raises, or 0
FirstRaise(results) ==
    IF \E c \in ChainIdx : results[c].raised
    THEN CHOOSE c \in ChainIdx :
            results[c].raised /\ \A d \in ChainIdx : results[d].raised => c <= d
    ELSE 0

redistribute_fees ==
    /\ pc = "allocated"
    /\ LET results == [c \in ChainIdx |->
                          Stage1Chain(core_pools[c], chains[c], fee_config,
                                      aura_vebal_share)]
           k == FirstRaise(results)
       IN  /\ core_pools' = [c \in ChainIdx |->
                                IF k = 0 \/ c <= k THEN results[c].pools
                                ELSE core_pools[c]]
           /\ pc' = IF k = 0 THEN "stage1" ELSE "raised"
           /\ error' = IF k = 0 THEN "none" ELSE "InvalidOperation"
    /\ UNCHANGED <<fee_config, aura_vebal_share, overrides, chains,
                   debt_to_aura, debt_repaid, market, core_pool, pool_earned>>

(***************************************************************************)
(* Stage 2: _handle_aura_min                                               *)
(***************************************************************************)
\* buffer of the first call, in percent
RelaxedBuffer == 25

\* buffer of the second call (the default)
StrictBuffer == 0

\* the floor of the buffered call, whatever the buffer passed
ActiveFloorAlwaysBuffered(cfg, buffer) ==
    (cfg.min_aura_incentive * (100 - RelaxedBuffer)) \div 100

\* the strict floor, whatever the buffer passed
ActiveFloorIgnoresBuffer(cfg, buffer) == cfg.min_aura_incentive

\* min_aura_incentive * (1 - buffer)
ActiveFloor(cfg, buffer) == (cfg.min_aura_incentive * (100 - buffer)) \div 100

\* the condition of the first loop with <= for <
MovesToBalAtFloor(p, floor) == p.to_aura_incentives_usd <= floor \/ p.override = "bal"

\* the condition of the first loop
MovesToBal(p, floor) == p.to_aura_incentives_usd < floor \/ p.override = "bal"

\* MoveToBal without "pool.to_aura_incentives_usd = Decimal(0)"
MoveToBalKeepsAura(p) ==
    [p EXCEPT !.to_bal_incentives_usd = @ + p.to_aura_incentives_usd]

\* the body of the first loop
MoveToBal(p) ==
    [p EXCEPT !.to_bal_incentives_usd  = @ + p.to_aura_incentives_usd,
              !.to_aura_incentives_usd = 0]

\* pools_over_min as the pools over the floor or with a bal amount
IsOverMinOrHasBal(p, floor) ==
    p.to_aura_incentives_usd >= floor \/ p.to_bal_incentives_usd > 0

\* p in pools_over_min
IsOverMin(p, floor) == p.to_aura_incentives_usd >= floor

\* the amount without the cap at the pool's bal amount
RepayAmountUncapped(p, amount_per_pool) == amount_per_pool

\* amount = min(amount_per_pool, pool.to_bal_incentives_usd)
RepayAmount(p, amount_per_pool) == Min(amount_per_pool, p.to_bal_incentives_usd)

\* RepayPool without "pool.to_bal_incentives_usd -= amount"
RepayPoolKeepsBal(p, amount_per_pool) ==
    [p EXCEPT !.to_aura_incentives_usd = @ + RepayAmount(p, amount_per_pool)]

\* the body of "for pool in pools_over_min"
RepayPool(p, amount_per_pool) ==
    LET amount == RepayAmount(p, amount_per_pool)
    IN  [p EXCEPT !.to_aura_incentives_usd = @ + amount,
                  !.to_bal_incentives_usd  = @ - amount]

\* the pools over the floor repaid one after the other, each taking what is
\* left of the debt up to its bal amount
RECURSIVE RepayInListOrder(_, _, _)
RepayInListOrder(pools, floor, remaining) ==
    IF pools = <<>> THEN <<>>
    ELSE LET p == Head(pools)
             amount == IF IsOverMin(p, floor) THEN RepayAmount(p, remaining) ELSE 0
         IN  <<IF IsOverMin(p, floor) THEN RepayPool(p, remaining) ELSE p>>
                 \o RepayInListOrder(Tail(pools), floor, remaining - amount)

\* HandleAuraMinChain with the debt repaid in list order instead of split
\* evenly
HandleAuraMinChainInListOrder(pools, floor) ==
    LET debt == SumSeq(MapSeq(LAMBDA p : IF MovesToBal(p, floor)
                                         THEN p.to_aura_incentives_usd ELSE 0,
                              pools))
        moved == MapSeq(LAMBDA p : IF MovesToBal(p, floor) THEN MoveToBal(p) ELSE p,
                        pools)
        repaid == RepayInListOrder(moved, floor, debt)
    IN  [pools  |-> repaid,
         debt   |-> debt,
         repaid |-> SumSeq(MapSeq(LAMBDA p : p.to_aura_incentives_usd, repaid))
                       - SumSeq(MapSeq(LAMBDA p : p.to_aura_incentives_usd, moved))]

\* one iteration of "for chain in self.run_config.all_chains"
HandleAuraMinChain(pools, floor) ==
    LET debt == SumSeq(MapSeq(LAMBDA p : IF MovesToBal(p, floor)
                                         THEN p.to_aura_incentives_usd ELSE 0,
                              pools))
        moved == MapSeq(LAMBDA p : IF MovesToBal(p, floor) THEN MoveToBal(p) ELSE p,
                        pools)
        count == Cardinality({i \in 1..Len(moved) : IsOverMin(moved[i], floor)})
        amount_per_pool == RoundHalfEven(debt, 1, count)
    IN  IF debt = 0 \/ count = 0
        THEN [pools |-> moved, debt |-> debt, repaid |-> 0]
        ELSE [pools  |-> MapSeq(LAMBDA p : IF IsOverMin(p, floor)
                                           THEN RepayPool(p, amount_per_pool) ELSE p,
                                moved),
              debt   |-> debt,
              repaid |-> SumSeq(MapSeq(LAMBDA p : IF IsOverMin(p, floor)
                                                  THEN RepayAmount(p, amount_per_pool)
                                                  ELSE 0,
                                       moved))]

\* handle_aura_min with "debt_to_aura = Decimal(0)" before the loop over the
\* chains instead of inside it: a chain starts with the debt of the chains
\* before it
handle_aura_min_debt_not_reset(buffer) ==
    /\ LET floor == ActiveFloor(fee_config, buffer)
           own(c) == HandleAuraMinChain(core_pools[c], floor)
           debt(c) == SumSeq([d \in 1..c |-> own(d).debt])
           moved(c) == MapSeq(LAMBDA p : IF MovesToBal(p, floor) THEN MoveToBal(p)
                                         ELSE p,
                              core_pools[c])
           count(c) == Cardinality({i \in 1..Len(moved(c)) :
                                       IsOverMin(moved(c)[i], floor)})
           repays(c) == debt(c) # 0 /\ count(c) # 0
           amount_per_pool(c) == RoundHalfEven(debt(c), 1, count(c))
       IN  /\ core_pools' =
                 [c \in ChainIdx |->
                     IF repays(c)
                     THEN MapSeq(LAMBDA p : IF IsOverMin(p, floor)
                                            THEN RepayPool(p, amount_per_pool(c))
                                            ELSE p,
                                 moved(c))
                     ELSE moved(c)]
           /\ debt_to_aura' = [c \in ChainIdx |-> debt(c)]
           /\ debt_repaid' =
                 [c \in ChainIdx |->
                     IF repays(c)
                     THEN SumSeq(MapSeq(LAMBDA p : IF IsOverMin(p, floor)
                                                   THEN RepayAmount(p, amount_per_pool(c))
                                                   ELSE 0,
                                        moved(c)))
                     ELSE 0]
    /\ UNCHANGED <<error, fee_config, aura_vebal_share, overrides, chains,
                   market, core_pool, pool_earned>>

\* self._handle_aura_min(buffer)
handle_aura_min(buffer) ==
    /\ LET results == [c \in ChainIdx |->
                          HandleAuraMinChain(core_pools[c],
                                             ActiveFloor(fee_config, buffer))]
       IN  /\ core_pools' = [c \in ChainIdx |-> results[c].pools]
           /\ debt_to_aura' = [c \in ChainIdx |-> results[c].debt]
           /\ debt_repaid' = [c \in ChainIdx |-> results[c].repaid]
    /\ UNCHANGED <<error, fee_config, aura_vebal_share, overrides, chains,
                   market, core_pool, pool_earned>>

\* self._handle_aura_min(buffer=0.25)
handle_aura_min_relaxed ==
    /\ pc = "stage1"
    /\ handle_aura_min(RelaxedBuffer)
    /\ pc' = "relaxed"

\* self._handle_aura_min()
handle_aura_min_strict ==
    /\ pc = "relaxed"
    /\ handle_aura_min(StrictBuffer)
    /\ pc' = "done"

Next ==
    \/ set_initial_pool_allocation
    \/ redistribute_fees
    \/ handle_aura_min_relaxed
    \/ handle_aura_min_strict

Spec == Init /\ [][Next]_vars

(***************************************************************************)
(* Runs over two chains                                                    *)
(***************************************************************************)
\* the keys of input_fees of a run over two chains
TwoChainNames == <<"mainnet", "arbitrum">>

\* most pools a chain has in the runs over two chains
MaxChainPools == 2

\* earned fees of a pool and fees collected on a chain, in those runs
ChainEarnedFees == {2000, 80000}
ChainFeesCollected == {4000, 100000}

ChainEarnedLists == UNION {[1..n -> ChainEarnedFees] : n \in 0..MaxChainPools}

InitChains ==
    InitRun(TwoChainNames, ChainFeesCollected, ChainEarnedLists, FeeConfigs,
            {RatioScale \div 2}, {<<>>, (RethWethPoolId :> "bal")}, {"aura"})

SpecChains == InitChains /\ [][Next]_vars

(***************************************************************************)
(* Runs over any configuration and override the external files can hold    *)
(***************************************************************************)
\* protocol_fees_constants.json as GlobalFeeConfig(**json) accepts it: the
\* fields are typed, their values are not validated
AnyFeeConfigs ==
    [min_aura_incentive        : {0, 15000},
     min_vote_incentive_amount : {0, 5000},
     dao_share_pct             : {RatioScale \div 20, RatioScale \div 2},
     vebal_share_pct           : {RatioScale \div 20, RatioScale \div 2}]

InitConfig ==
    InitRun(ChainNames, ChainFeesCollected, ChainEarnedLists, AnyFeeConfigs,
            AuraVebalShares, Registries, Markets)

SpecConfig == InitConfig /\ [][Next]_vars

(***************************************************************************)
(* The earnings of a CorePool                                              *)
(***************************************************************************)
\* token addresses, cumulative fee counters and prices of the input
TokenAddresses == {1, 2}
PaidFees       == {10, 30}
TwapPrices     == {2, 5}
BptPrices      == {3}

\* the lists over S that name no element twice, in every order
InjectiveSeqs(S) ==
    {a \in UNION {[1..n -> S] : n \in 0..Cardinality(S)} :
        \A i, j \in DOMAIN a : a[i] = a[j] => i = j}

\* PoolSnapshot.tokens
SnapshotTokens ==
    UNION {{[i \in DOMAIN a |-> [address |-> a[i], paidProtocolFees |-> v[i]]] :
                v \in [DOMAIN a -> PaidFees]} :
           a \in InjectiveSeqs(TokenAddresses)}

\* tokens_price: List[TWAPResult]
TokenPrices ==
    UNION {{[i \in DOMAIN a |-> [address |-> a[i], twap_price |-> v[i]]] :
                v \in [DOMAIN a -> TwapPrices]} :
           a \in InjectiveSeqs(TokenAddresses)}

PoolSnapshots == [totalProtocolFeePaidInBPT : PaidFees, tokens : SnapshotTokens]

CorePools ==
    [bpt_price    : BptPrices,
     tokens_price : TokenPrices,
     start_snap   : PoolSnapshots,
     end_snap     : PoolSnapshots]

\* a CorePool as its constructor receives it, in a run that has no chain
\* data yet
InitEarnings ==
    /\ pc = "fetched"
    /\ error = "none"
    /\ fee_config \in {cfg \in FeeConfigs : /\ cfg.min_aura_incentive = 0
                                            /\ cfg.min_vote_incentive_amount = 0}
    /\ aura_vebal_share = RatioScale \div 2
    /\ overrides = <<>>
    /\ market = "aura"
    /\ chains = <<>>
    /\ core_pools = <<>>
    /\ debt_to_aura = <<>>
    /\ debt_repaid = <<>>
    /\ core_pool \in CorePools
    /\ pool_earned = NoEarned

\* list.sort(key=lambda x: x.address), for a list that names no address twice
SortByAddress(tokens) ==
    [i \in 1..Len(tokens) |->
        CHOOSE e \in {tokens[j] : j \in 1..Len(tokens)} :
            Cardinality({j \in 1..Len(tokens) : tokens[j].address <= e.address}) = i]

\* CorePool.__post_init__: the three lists sorted by address
post_init ==
    /\ pc = "fetched"
    /\ core_pool' =
          [core_pool EXCEPT
              !.tokens_price      = SortByAddress(@),
              !.start_snap.tokens = SortByAddress(@),
              !.end_snap.tokens   = SortByAddress(@)]
    /\ pc' = "sorted"
    /\ UNCHANGED <<error, fee_config, aura_vebal_share, overrides, chains,
                   core_pools, debt_to_aura, debt_repaid, market, pool_earned>>

\* zip(a, b): the pairs by position, as many as the shorter list has
Zip(a, b) == [i \in 1..Min(Len(a), Len(b)) |-> <<a[i], b[i]>>]

earned_bpt_fee(p) ==
    p.end_snap.totalProtocolFeePaidInBPT - p.start_snap.totalProtocolFeePaidInBPT

\* @return_zero_if_dust() reads bpt_price and earned_bpt_fee
earned_bpt_fee_usd(p) ==
    IF IsDust(p.bpt_price) THEN 0
    ELSE ReturnZeroIfDust(earned_bpt_fee(p), p.bpt_price * earned_bpt_fee(p))

\* the dict of end_token.address to fee, in insertion order
earned_tokens_fee(p) ==
    MapSeq(LAMBDA pair : [address |-> pair[2].address,
                          fee     |-> pair[2].paidProtocolFees
                                          - pair[1].paidProtocolFees],
           Zip(p.start_snap.tokens, p.end_snap.tokens))

earned_tokens_fee_usd(p) ==
    SumSeq(MapSeq(LAMBDA pair : IF pair[1].fee > 0
                                THEN pair[2].twap_price * pair[1].fee ELSE 0,
                  Zip(earned_tokens_fee(p), p.tokens_price)))

\* CorePool.total_earned_fees_usd
CorePoolTotalEarnedFeesUsd(p) == earned_bpt_fee_usd(p) + earned_tokens_fee_usd(p)

\* the read of core_pool.total_earned_fees_usd
read_total_earned_fees_usd ==
    /\ pc = "sorted"
    /\ pool_earned' =
          [earned_bpt_fee_usd    |-> earned_bpt_fee_usd(core_pool),
           earned_tokens_fee_usd |-> earned_tokens_fee_usd(core_pool),
           total_earned_fees_usd |-> CorePoolTotalEarnedFeesUsd(core_pool)]
    /\ pc' = "earned"
    /\ UNCHANGED <<error, fee_config, aura_vebal_share, overrides, chains,
                   core_pools, debt_to_aura, debt_repaid, market, core_pool>>

NextEarnings ==
    \/ post_init
    \/ read_total_earned_fees_usd

SpecEarnings == InitEarnings /\ [][NextEarnings]_vars

(***************************************************************************)
(* The getters of an override                                              *)
(***************************************************************************)
\* RethWethOverride.to_aura_incentives_usd, for the pool it was built on
OverrideToAuraIncentivesUsd(p, mkt) ==
    IF mkt = "aura" THEN p.to_aura_incentives_usd ELSE 0

\* RethWethOverride.to_bal_incentives_usd
OverrideToBalIncentivesUsd(p, mkt) ==
    IF mkt = "bal" THEN p.to_bal_incentives_usd ELSE 0

(***************************************************************************)
(* Properties                                                              *)
(***************************************************************************)
\* what one rounded product or quotient may be off by, in USD
RoundingEps == 1

Abs(x) == IF x < 0 THEN 0 - x ELSE x

Near(x, y, eps) == Abs(x - y) <= eps

PoolIdx(c) == 1..Len(core_pools[c])

\* the sum of a field over the pools of a list
SumOf(f(_), pools) == SumSeq(MapSeq(f, pools))

TotalOf(p) == p.total_to_incentives_usd
AuraOf(p)  == p.to_aura_incentives_usd
BalOf(p)   == p.to_bal_incentives_usd

\* the pool was classified below the vote-incentive threshold by stage 1
WasBelow(c, i) ==
    total_to_incentives_usd(chains[c].pool_fee_data[i], chains[c], fee_config)
        < fee_config.min_vote_incentive_amount

\* the chain has a pool stage 1 classifies eligible
HasEligible(c) == \E i \in 1..Len(chains[c].pool_fee_data) : ~WasBelow(c, i)

\* the tolerance for a sum over the pools of a chain
ChainEps(c) == RoundingEps * Len(chains[c].pool_fee_data)

\* C1: in every state reached by the initial allocation, stage 1 and each
\* _handle_aura_min call, every pool's total_to_incentives_usd equals its
\* aura amount plus its bal amount, within rounding
C1_TotalIsAuraPlusBal ==
    \A c \in ChainIdx : \A i \in PoolIdx(c) :
        LET p == core_pools[c][i]
        IN  Near(p.total_to_incentives_usd,
                 p.to_aura_incentives_usd + p.to_bal_incentives_usd, RoundingEps)

\* a pool that received redistributed fees in stage 1 and then repaid aura
\* debt from its bal amount in the strict call
C1_Witness ==
    /\ pc = "done"
    /\ \E c \in ChainIdx :
          /\ debt_repaid[c] > 0
          /\ \E i \in PoolIdx(c) :
                /\ core_pools[c][i].redirected_incentives_usd > 0
                /\ core_pools[c][i].to_aura_incentives_usd > 0
                /\ core_pools[c][i].to_bal_incentives_usd > 0

\* C2: stage 1 leaves the chain's summed total_to_incentives_usd, summed
\* aura amount and summed bal amount what they were before it, within
\* rounding
C2_Stage1Conserves ==
    pc = "stage1" =>
        \A c \in ChainIdx :
            LET base == InitialPools(c)
            IN  /\ Near(SumOf(TotalOf, core_pools[c]), SumOf(TotalOf, base), ChainEps(c))
                /\ Near(SumOf(AuraOf, core_pools[c]), SumOf(AuraOf, base), ChainEps(c))
                /\ Near(SumOf(BalOf, core_pools[c]), SumOf(BalOf, base), ChainEps(c))

\* stage 1 moved a non-zero amount from a below pool that earned fees to two
\* eligible pools
C2_Witness ==
    /\ pc = "stage1"
    /\ \E c \in ChainIdx :
          /\ \E i \in PoolIdx(c) :
                /\ core_pools[c][i].redirected_incentives_usd < 0
                /\ core_pools[c][i].total_earned_fees_usd_twap > 0
          /\ \E i, j \in PoolIdx(c) :
                /\ i # j
                /\ core_pools[c][i].redirected_incentives_usd > 0
                /\ core_pools[c][j].redirected_incentives_usd > 0

\* what stage 1 removes from the below pools of the chain
RemovedAmount(c) ==
    SumSeq([i \in 1..Len(chains[c].pool_fee_data) |->
              IF WasBelow(c, i)
              THEN total_to_incentives_usd(chains[c].pool_fee_data[i], chains[c],
                                           fee_config)
              ELSE 0])

\* the summed earned fees of the eligible pools of the chain
EligibleEarned(c) ==
    SumSeq([i \in 1..Len(chains[c].pool_fee_data) |->
              IF WasBelow(c, i) THEN 0 ELSE chains[c].pool_fee_data[i].earned])

\* fees_collected x (1 - dao_share_pct - vebal_share_pct)
IncentiveBudget(c) ==
    DecimalMul(chains[c].fees_collected,
               RatioScale - fee_config.dao_share_pct - fee_config.vebal_share_pct)

\* the scenario of the specification: 100000 collected, shares of 5% each,
\* earned fees 80000, 15000 and 5000, min_vote_incentive_amount 5000
IsScenario(c) ==
    /\ chains[c].fees_collected = 100000
    /\ fee_config.dao_share_pct = RatioScale \div 20
    /\ fee_config.vebal_share_pct = RatioScale \div 20
    /\ fee_config.min_vote_incentive_amount = 5000
    /\ Len(chains[c].pool_fee_data) = 3
    /\ chains[c].pool_fee_data[1].earned = 80000
    /\ chains[c].pool_fee_data[2].earned = 15000
    /\ chains[c].pool_fee_data[3].earned = 5000

\* C3: stage 1 gives every eligible pool removed x earned / (eligible earned)
\* on top of its total, the aura and bal parts of that on top of its aura and
\* bal amounts, and the same increase in redirected_incentives_usd, so that
\* its total ends at budget x earned / (eligible earned); in the scenario
\* the totals end at 75789.47, 14210.53 and 0, to the USD
C3_EarnedFeeWeights ==
    pc = "stage1" =>
        \A c \in ChainIdx :
            /\ \A i \in PoolIdx(c) :
                  HasEligible(c) /\ ~WasBelow(c, i) =>
                      LET p    == core_pools[c][i]
                          base == InitialPool(c, i)
                          inc  == RoundHalfEven(RemovedAmount(c),
                                                p.total_earned_fees_usd_twap,
                                                EligibleEarned(c))
                      IN  /\ Near(p.total_to_incentives_usd
                                    - base.total_to_incentives_usd, inc, RoundingEps)
                          /\ p.redirected_incentives_usd
                                = p.total_to_incentives_usd - base.total_to_incentives_usd
                          /\ Near(p.to_aura_incentives_usd - base.to_aura_incentives_usd,
                                  DecimalMul(inc, aura_vebal_share), RoundingEps)
                          /\ Near(p.to_bal_incentives_usd - base.to_bal_incentives_usd,
                                  DecimalMul(inc, RatioScale - aura_vebal_share),
                                  RoundingEps)
                          /\ Near(p.total_to_incentives_usd,
                                  RoundHalfEven(IncentiveBudget(c),
                                                p.total_earned_fees_usd_twap,
                                                EligibleEarned(c)),
                                  ChainEps(c))
            /\ IsScenario(c) =>
                  /\ Near(core_pools[c][1].total_to_incentives_usd, 75789, 1)
                  /\ Near(core_pools[c][2].total_to_incentives_usd, 14211, 1)
                  /\ core_pools[c][3].total_to_incentives_usd = 0

\* the scenario after stage 1: the third pool gave its 4500 to the other two
C3_Witness ==
    /\ pc = "stage1"
    /\ IsScenario(1)
    /\ core_pools[1][3].redirected_incentives_usd = 0 - 4500
    /\ core_pools[1][1].redirected_incentives_usd > 0
    /\ core_pools[1][2].redirected_incentives_usd > 0

\* the pool has no incentives left in either market
IsZeroed(p) ==
    /\ p.total_to_incentives_usd = 0
    /\ p.to_aura_incentives_usd = 0
    /\ p.to_bal_incentives_usd = 0

\* C4 as stated: after stage 1 every pool classified below has total, aura
\* and bal amounts of 0, in every chain
C4_BelowZeroedInEveryChain ==
    pc = "stage1" =>
        \A c \in ChainIdx : \A i \in PoolIdx(c) :
            WasBelow(c, i) => IsZeroed(core_pools[c][i])

\* C4 amended: after stage 1, in every chain that has an eligible pool, every
\* pool classified below has total, aura and bal amounts of 0
C4_BelowZeroedWhereEligible ==
    pc = "stage1" =>
        \A c \in ChainIdx : \A i \in PoolIdx(c) :
            HasEligible(c) /\ WasBelow(c, i) => IsZeroed(core_pools[c][i])

\* a below pool that had a non-zero budget in both markets was zeroed
C4_Witness ==
    /\ pc = "stage1"
    /\ \E c \in ChainIdx : \E i \in PoolIdx(c) :
          /\ HasEligible(c)
          /\ WasBelow(c, i)
          /\ InitialPool(c, i).to_aura_incentives_usd > 0
          /\ InitialPool(c, i).to_bal_incentives_usd > 0
          /\ IsZeroed(core_pools[c][i])

\* C5: after the strict call every pool without an override has an aura
\* amount of 0 or of at least min_aura_incentive
C5_StrictFloor ==
    pc = "done" =>
        \A c \in ChainIdx : \A i \in PoolIdx(c) :
            core_pools[c][i].override = "none" =>
                \/ core_pools[c][i].to_aura_incentives_usd = 0
                \/ core_pools[c][i].to_aura_incentives_usd
                       >= fee_config.min_aura_incentive

\* the strict call left part of the debt unrepaid: the pools over the floor
\* had less in bal than their share of the debt
C5_Witness ==
    /\ pc = "done"
    /\ fee_config.min_aura_incentive > 0
    /\ \E c \in ChainIdx :
          /\ debt_repaid[c] > 0
          /\ debt_repaid[c] < debt_to_aura[c]
          /\ \E i \in PoolIdx(c) :
                /\ core_pools[c][i].override = "none"
                /\ core_pools[c][i].to_aura_incentives_usd
                       >= fee_config.min_aura_incentive

\* the strict call repaid the whole debt
C5_FullyRepaid ==
    /\ pc = "done"
    /\ fee_config.min_aura_incentive > 0
    /\ \E c \in ChainIdx : debt_to_aura[c] > 0 /\ debt_repaid[c] = debt_to_aura[c]

\* C6 as stated: after both stages a pool whose override names the bal
\* voting pool has an aura amount of 0
C6_BalOverrideHasNoAura ==
    pc = "done" =>
        \A c \in ChainIdx : \A i \in PoolIdx(c) :
            core_pools[c][i].override = "bal" =>
                core_pools[c][i].to_aura_incentives_usd = 0

\* a _handle_aura_min call leaves the pools with an aura override at least
\* the aura amount they had
AuraOverrideKeepsAura ==
    pc \in {"stage1", "relaxed"} =>
        \A c \in ChainIdx : \A i \in PoolIdx(c) :
            core_pools[c][i].override = "aura" =>
                (core_pools'[c][i].to_aura_incentives_usd
                    >= core_pools[c][i].to_aura_incentives_usd)

\* C7 as stated: no _handle_aura_min call lowers the aura amount of a pool
\* whose override names the aura voting pool
C7_AuraOverrideNeverMoved == [][AuraOverrideKeepsAura]_vars

\* every pool of the chain starts at or above both thresholds
AllAboveBoth(c) ==
    \A i \in 1..Len(chains[c].pool_fee_data) :
        /\ ~WasBelow(c, i)
        /\ InitialPool(c, i).to_aura_incentives_usd >= fee_config.min_aura_incentive

\* the base budgets of the chain, summed: budget x earned / (chain earned)
SumOfBaseBudgets(c) ==
    SumSeq([i \in 1..Len(chains[c].pool_fee_data) |->
              IF chains[c].pool_fee_data[i].earned = 0 THEN 0
              ELSE RoundHalfEven(IncentiveBudget(c), chains[c].pool_fee_data[i].earned,
                                 total_earned_fees_usd(chains[c]))])

DaoOf(p)   == p.to_dao_usd
VebalOf(p) == p.to_vebal_usd

\* the two sums of C8 for a chain
ConservesFees(c) ==
    /\ Near(SumOf(AuraOf, core_pools[c]) + SumOf(BalOf, core_pools[c]),
            SumOfBaseBudgets(c), ChainEps(c))
    /\ Near(SumOf(DaoOf, core_pools[c]) + SumOf(VebalOf, core_pools[c])
                + SumOf(TotalOf, core_pools[c]),
            chains[c].fees_collected, ChainEps(c))

C9_NoEligibleIsNoOp ==
    /\ pc \in {"stage1", "raised"} =>
          \A c \in ChainIdx : ~HasEligible(c) => core_pools[c] = InitialPools(c)
    /\ (\A c \in ChainIdx : ~HasEligible(c)) => error = "none" /\ pc # "raised"

\* stage 1 ran over a chain whose pools all have a non-zero budget under
\* the threshold
C9_Witness ==
    /\ pc = "stage1"
    /\ \E c \in ChainIdx :
          /\ ~HasEligible(c)
          /\ Len(core_pools[c]) >= 2
          /\ \A i \in PoolIdx(c) : core_pools[c][i].total_to_incentives_usd > 0

\* C10 as stated: neither stage raises on a zero denominator
C10_NeverRaises == error = "none" /\ pc # "raised"

\* min_aura_incentive x 0.75 and min_aura_incentive, the floors of the two
\* stage-2 invocations
RelaxedFloorOf(cfg) == (cfg.min_aura_incentive * 3) \div 4
StrictFloorOf(cfg)  == cfg.min_aura_incentive

\* the step a run of redistribute_fees may take from each position
StepsInOrder ==
    /\ pc = "constructed" => pc' = "allocated"
    /\ pc = "allocated" =>
          /\ pc' \in {"stage1", "raised"}
          /\ debt_to_aura' = debt_to_aura
          /\ pc' = "stage1" =>
                \A c \in ChainIdx :
                    core_pools'[c] = Stage1Chain(core_pools[c], chains[c], fee_config,
                                                 aura_vebal_share).pools
    /\ pc = "stage1" =>
          /\ pc' = "relaxed"
          /\ \A c \in ChainIdx :
                core_pools'[c]
                    = HandleAuraMinChain(core_pools[c], RelaxedFloorOf(fee_config)).pools
    /\ pc = "relaxed" =>
          /\ pc' = "done"
          /\ \A c \in ChainIdx :
                core_pools'[c]
                    = HandleAuraMinChain(core_pools[c], StrictFloorOf(fee_config)).pools
    /\ pc \notin {"done", "raised"}

\* C11: stage 1 runs to completion over every chain, then the stage-2
\* invocation with the floor min_aura_incentive x 0.75 runs on the pools
\* stage 1 wrote, then the invocation with the floor min_aura_incentive runs
\* on the pools the relaxed one wrote; after the second invocation no step
\* follows, whatever debt is left
C11_StagesInOrder == [][StepsInOrder]_vars

\* the run ended with a pool that passed the relaxed floor and was moved to
\* bal by the strict invocation, leaving its chain in debt
C11_Witness ==
    /\ pc = "done"
    /\ fee_config.min_aura_incentive > 0
    /\ \E c \in ChainIdx :
          /\ debt_to_aura[c] >= RelaxedFloorOf(fee_config)
          /\ \E i \in PoolIdx(c) :
                /\ core_pools[c][i].override = "none"
                /\ core_pools[c][i].to_aura_incentives_usd = 0
                /\ core_pools[c][i].to_bal_incentives_usd >= RelaxedFloorOf(fee_config)

\* C14: after the initial allocation every pool's
\* earned_fee_share_of_chain_usd is its earned fees over the summed earned
\* fees of its chain, and 0 with no error when that sum is 0
C14_ShareOfChainEarned ==
    pc = "allocated" =>
        /\ error = "none"
        /\ \A c \in ChainIdx :
              LET chain_total ==
                      SumSeq([i \in PoolIdx(c) |-> chains[c].pool_fee_data[i].earned])
              IN  \A i \in PoolIdx(c) :
                      core_pools[c][i].earned_fee_share_of_chain_usd
                          = IF chain_total = 0 THEN 0
                            ELSE RoundHalfEven(chains[c].pool_fee_data[i].earned,
                                               RatioScale, chain_total)

\* the allocation ran over a chain with fees to allocate whose pools all
\* earned nothing
C14_Witness ==
    /\ pc = "allocated"
    /\ \E c \in ChainIdx :
          /\ chains[c].fees_collected > 0
          /\ Len(core_pools[c]) >= 2
          /\ \A i \in PoolIdx(c) :
                /\ core_pools[c][i].total_earned_fees_usd_twap = 0
                /\ core_pools[c][i].earned_fee_share_of_chain_usd = 0

\* the floor of the invocation that runs from this position
FloorAt(position) ==
    IF position = "stage1" THEN RelaxedFloorOf(fee_config) ELSE StrictFloorOf(fee_config)

\* step 1 of the invocation that runs from this position moves the pool
IsMovedInStep1(p) ==
    p.to_aura_incentives_usd < FloorAt(pc) \/ p.override = "bal"

\* what step 1 of a _handle_aura_min invocation does to the pools
Step1MovesBelowFloor ==
    pc \in {"stage1", "relaxed"} =>
        \A c \in ChainIdx :
            /\ debt_to_aura'[c]
                  = SumSeq([i \in PoolIdx(c) |->
                              IF IsMovedInStep1(core_pools[c][i])
                              THEN core_pools[c][i].to_aura_incentives_usd ELSE 0])
            /\ \A i \in PoolIdx(c) :
                  LET p == core_pools[c][i]
                      q == core_pools'[c][i]
                  IN  /\ IsMovedInStep1(p) /\ FloorAt(pc) > 0 =>
                            /\ q.to_aura_incentives_usd = 0
                            /\ q.to_bal_incentives_usd
                                  = p.to_bal_incentives_usd + p.to_aura_incentives_usd
                      /\ ~IsMovedInStep1(p) =>
                            q.to_aura_incentives_usd >= p.to_aura_incentives_usd
                      /\ p.to_aura_incentives_usd = FloorAt(pc) /\ p.override # "bal" =>
                            q.to_aura_incentives_usd >= FloorAt(pc)

\* C20: step 1 of each _handle_aura_min invocation moves the whole aura
\* amount of exactly the pools under the active floor or with a bal override
\* to their bal amount, the debt of the chain is the sum of the amounts
\* moved, and a pool at the floor exactly is not moved
C20_Step1MovesBelowFloor == [][Step1MovesBelowFloor]_vars

\* the relaxed invocation met a pool at the floor exactly and did not move
\* it, while another pool of the chain was moved and left a debt
C20_Witness ==
    /\ pc = "relaxed"
    /\ RelaxedFloorOf(fee_config) > 0
    /\ \E c \in ChainIdx :
          /\ debt_to_aura[c] > 0
          /\ \E i \in PoolIdx(c) :
                /\ core_pools[c][i].redirected_incentives_usd = 0
                /\ InitialPool(c, i).to_aura_incentives_usd = RelaxedFloorOf(fee_config)
                /\ core_pools[c][i].to_aura_incentives_usd >= RelaxedFloorOf(fee_config)

\* stage 1, the relaxed invocation and the strict invocation applied to one
\* chain on its own, from its own pool data, fees and the run's configuration
AloneAfterStage1(c) ==
    Stage1Chain(InitialPools(c), chains[c], fee_config, aura_vebal_share)
AloneAfterRelaxed(c) ==
    HandleAuraMinChain(AloneAfterStage1(c).pools, RelaxedFloorOf(fee_config))
AloneAfterStrict(c) ==
    HandleAuraMinChain(AloneAfterRelaxed(c).pools, StrictFloorOf(fee_config))

PoolOrders(n) ==
    {f \in [1..n -> 1..n] : \A i, j \in 1..n : f[i] = f[j] => i = j}

Permuted(pools, f) == [i \in 1..Len(pools) |-> pools[f[i]]]

\* C13: stage 1 and each stage-2 invocation give every pool the same
\* amounts for every order of the chain's pool list, and the same debt and
\* total repaid
C13_PoolOrderIrrelevant ==
    \A c \in ChainIdx : \A f \in PoolOrders(Len(core_pools[c])) :
        LET pools == core_pools[c]
        IN  /\ pc = "allocated" =>
                  LET a == Stage1Chain(pools, chains[c], fee_config, aura_vebal_share)
                      b == Stage1Chain(Permuted(pools, f), chains[c], fee_config,
                                       aura_vebal_share)
                  IN  b.pools = Permuted(a.pools, f) /\ b.raised = a.raised
            /\ pc \in {"stage1", "relaxed"} =>
                  LET a == HandleAuraMinChain(pools, FloorAt(pc))
                      b == HandleAuraMinChain(Permuted(pools, f), FloorAt(pc))
                  IN  /\ b.pools = Permuted(a.pools, f)
                      /\ b.debt = a.debt
                      /\ b.repaid = a.repaid

\* a chain of two different pools went through a stage 1 that moved fees and
\* a relaxed invocation that repaid debt
C13_Witness ==
    /\ pc = "relaxed"
    /\ \E c \in ChainIdx :
          /\ Len(core_pools[c]) = 2
          /\ core_pools[c][1].total_earned_fees_usd_twap
                # core_pools[c][2].total_earned_fees_usd_twap
          /\ \E i \in PoolIdx(c) : core_pools[c][i].redirected_incentives_usd < 0
          /\ debt_repaid[c] > 0

\* C18 as stated: a configuration with dao_share_pct + vebal_share_pct >= 1
\* ends the run before any pool amount is computed from it
C18_BadConfigAborts ==
    fee_config.dao_share_pct + fee_config.vebal_share_pct >= RatioScale =>
        \A c \in ChainIdx : core_pools[c] = <<>>

\* C19 as stated: the getters of a pool's override sum to the pool's
\* total_to_incentives_usd, all of it in the forced market and 0 in the other
C19_OverrideForcesWholeBudget ==
    \A c \in ChainIdx : \A i \in PoolIdx(c) :
        LET p == core_pools[c][i]
            to_aura == OverrideToAuraIncentivesUsd(p, market)
            to_bal  == OverrideToBalIncentivesUsd(p, market)
        IN  pc = "allocated" /\ p.override # "none" =>
                /\ Near(to_aura + to_bal, p.total_to_incentives_usd, RoundingEps)
                /\ market = "aura" => to_bal = 0
                /\ market = "bal" => to_aura = 0

\* the addresses a token list names
AddressesOf(tokens) == {tokens[i].address : i \in 1..Len(tokens)}

\* the entry of a token list for an address it names
EntryOf(tokens, a) ==
    CHOOSE e \in {tokens[i] : i \in 1..Len(tokens)} : e.address = a

\* the fee delta of a token between the snapshots of the pool
FeeDelta(p, a) ==
    EntryOf(p.end_snap.tokens, a).paidProtocolFees
        - EntryOf(p.start_snap.tokens, a).paidProtocolFees

RECURSIVE SumOver(_, _)
SumOver(f(_), S) ==
    IF S = {} THEN 0
    ELSE LET a == CHOOSE x \in S : TRUE IN f(a) + SumOver(f, S \ {a})

\* the sum over the tokens of the snapshots of the positive fee deltas, each
\* times the TWAP price of the same address
TokenFeesByAddress(p) ==
    SumOver(LAMBDA a : IF FeeDelta(p, a) > 0
                       THEN FeeDelta(p, a) * EntryOf(p.tokens_price, a).twap_price
                       ELSE 0,
            AddressesOf(p.start_snap.tokens))

\* the snapshots name the same tokens and every one of them has a price
EveryTokenPriced(p) ==
    /\ AddressesOf(p.start_snap.tokens) = AddressesOf(p.end_snap.tokens)
    /\ AddressesOf(p.start_snap.tokens) \subseteq AddressesOf(p.tokens_price)

\* C15 as stated: the earned fees are the LP fee delta times the LP price
\* plus, over the tokens with a positive fee delta, the delta times the TWAP
\* price of that token
C15_EarnedFeesFormula ==
    pc = "earned" /\ EveryTokenPriced(core_pool) =>
        pool_earned.total_earned_fees_usd
            = earned_bpt_fee(core_pool) * core_pool.bpt_price
                + TokenFeesByAddress(core_pool)

\* C16 as stated: every fee delta is taken between the entries of one
\* address and multiplied by the price of that address, whatever the order
\* of the lists and whatever other addresses the price list names
C16_TokensPairedByAddress ==
    pc = "earned" /\ EveryTokenPriced(core_pool) =>
        pool_earned.earned_tokens_fee_usd = TokenFeesByAddress(core_pool)

\* C17 as stated: snapshots that do not name the same tokens end the
\* computation with a data error and give no earned fees
C17_MismatchedSnapshotsFail ==
    pc = "earned"
      /\ AddressesOf(core_pool.start_snap.tokens)
            # AddressesOf(core_pool.end_snap.tokens) =>
        error = "DataError" /\ pool_earned = NoEarned

\* the aura and bal amounts of a pool after step 1 of the invocation that
\* runs from this position
AuraAfterStep1(p) == IF IsMovedInStep1(p) THEN 0 ELSE p.to_aura_incentives_usd
BalAfterStep1(p) ==
    IF IsMovedInStep1(p) THEN p.to_bal_incentives_usd + p.to_aura_incentives_usd
    ELSE p.to_bal_incentives_usd

\* the pools whose aura amount is at or over the floor after step 1
OverFloorAfterStep1(c) ==
    {i \in PoolIdx(c) : AuraAfterStep1(core_pools[c][i]) >= FloorAt(pc)}

\* what steps 2 to 4 of a _handle_aura_min invocation do
RepaysWithinDebt ==
    pc \in {"stage1", "relaxed"} =>
        /\ error' = "none"
        /\ \A c \in ChainIdx :
              LET debt  == debt_to_aura'[c]
                  over  == OverFloorAfterStep1(c)
                  count == Cardinality(over)
                  share == RoundHalfEven(debt, 1, count)
                  repays(i) == debt # 0 /\ i \in over
              IN  /\ \A i \in PoolIdx(c) :
                        LET p == core_pools[c][i]
                            q == core_pools'[c][i]
                            amount == IF repays(i) THEN Min(share, BalAfterStep1(p))
                                      ELSE 0
                        IN  /\ q.to_aura_incentives_usd = AuraAfterStep1(p) + amount
                            /\ q.to_bal_incentives_usd = BalAfterStep1(p) - amount
                  /\ debt = 0 \/ count = 0 => debt_repaid'[c] = 0
                  /\ debt_repaid'[c] <= debt + RoundingEps * count
                  /\ SumOf(AuraOf, core_pools'[c])
                        <= SumOf(AuraOf, core_pools[c]) + RoundingEps * count

\* C21: an invocation repays only when the chain's debt is not 0 and a pool
\* is at or over the floor after step 1; each such pool then moves
\* min(debt / count, its bal amount) from bal to aura, the total repaid is at
\* most the debt and the chain's summed aura amount does not grow; otherwise
\* the debt stays in bal, and no error is raised
C21_RepaysWithinDebt == [][RepaysWithinDebt]_vars

\* an invocation repaid part of a debt, and one with a debt repaid nothing
C21_Witness ==
    /\ pc = "relaxed"
    /\ \E c \in ChainIdx :
          /\ debt_repaid[c] > 0
          /\ debt_repaid[c] < debt_to_aura[c]
          /\ \E i \in PoolIdx(c) :
                /\ core_pools[c][i].to_aura_incentives_usd > 0
                /\ core_pools[c][i].to_bal_incentives_usd = 0

\* C22: after stage 1 and after each stage-2 invocation every pool's
\* redirected_incentives_usd is its total_to_incentives_usd minus the total
\* of the initial allocation: minus the removed amount for a below pool of a
\* chain with an eligible pool, not negative for an eligible pool, and 0
\* summed over the chain, within rounding
C22_RedirectedIsDelta ==
    pc \in {"stage1", "relaxed", "done"} =>
        \A c \in ChainIdx :
            /\ \A i \in PoolIdx(c) :
                  LET p == core_pools[c][i]
                      base == InitialPool(c, i).total_to_incentives_usd
                  IN  /\ p.redirected_incentives_usd = p.total_to_incentives_usd - base
                      /\ HasEligible(c) /\ WasBelow(c, i) =>
                            p.redirected_incentives_usd = 0 - base
                      /\ ~WasBelow(c, i) => p.redirected_incentives_usd >= 0
            /\ Near(SumSeq([i \in PoolIdx(c) |->
                              core_pools[c][i].redirected_incentives_usd]),
                    0, ChainEps(c))

\* the run ended with a pool that gave its budget away and two that received
C22_Witness ==
    /\ pc = "done"
    /\ \E c \in ChainIdx : \E i, j, k \in PoolIdx(c) :
          /\ j # k
          /\ core_pools[c][i].redirected_incentives_usd < 0
          /\ core_pools[c][j].redirected_incentives_usd > 0
          /\ core_pools[c][k].redirected_incentives_usd > 0

\* C23: after stage 1 on a chain with an eligible pool, every pool's share
\* is its total over the chain's summed total (0 when that sum is 0), its
\* DAO, veBAL and incentive amounts are that share of fees_collected times
\* dao_share_pct, vebal_share_pct and 1 - dao_share_pct - vebal_share_pct,
\* a below pool has no DAO and veBAL amount, and the chain's DAO amounts sum
\* to fees_collected x dao_share_pct, within rounding
C23_OneShareForAll ==
    pc = "stage1" =>
        \A c \in ChainIdx :
            HasEligible(c) =>
                LET chain_total == SumOf(TotalOf, core_pools[c])
                    of_fees(share) == DecimalMul(chains[c].fees_collected, share)
                IN  /\ \A i \in PoolIdx(c) :
                          LET p == core_pools[c][i]
                              share == p.earned_fee_share_of_chain_usd
                          IN  /\ share = IF chain_total = 0 THEN 0
                                         ELSE RoundHalfEven(p.total_to_incentives_usd,
                                                            RatioScale, chain_total)
                              /\ Near(p.to_dao_usd,
                                      DecimalMul(of_fees(share), fee_config.dao_share_pct),
                                      RoundingEps)
                              /\ Near(p.to_vebal_usd,
                                      DecimalMul(of_fees(share), fee_config.vebal_share_pct),
                                      RoundingEps)
                              /\ Near(p.total_to_incentives_usd,
                                      DecimalMul(of_fees(share),
                                                 RatioScale - fee_config.dao_share_pct
                                                     - fee_config.vebal_share_pct),
                                      ChainEps(c))
                              /\ WasBelow(c, i) => p.to_dao_usd = 0 /\ p.to_vebal_usd = 0
                    /\ Near(SumOf(DaoOf, core_pools[c]),
                            DecimalMul(chains[c].fees_collected, fee_config.dao_share_pct),
                            ChainEps(c))

\* stage 1 ran on a chain where a below pool had a DAO amount and lost it
C23_Witness ==
    /\ pc = "stage1"
    /\ \E c \in ChainIdx : \E i, j \in PoolIdx(c) :
          /\ HasEligible(c)
          /\ WasBelow(c, i)
          /\ InitialPool(c, i).to_dao_usd > 0
          /\ core_pools[c][i].to_dao_usd = 0
          /\ core_pools[c][j].to_dao_usd > InitialPool(c, j).to_dao_usd

\* what a _handle_aura_min invocation leaves alone
KeepsAllButMarkets ==
    pc \in {"stage1", "relaxed"} =>
        \A c \in ChainIdx :
            /\ Len(core_pools'[c]) = Len(core_pools[c])
            /\ \A i \in PoolIdx(c) :
                  LET p == core_pools[c][i]
                      q == core_pools'[c][i]
                  IN  /\ q.total_to_incentives_usd = p.total_to_incentives_usd
                      /\ q.redirected_incentives_usd = p.redirected_incentives_usd
                      /\ q.to_dao_usd = p.to_dao_usd
                      /\ q.to_vebal_usd = p.to_vebal_usd
                      /\ q.earned_fee_share_of_chain_usd = p.earned_fee_share_of_chain_usd
                      /\ q.to_aura_incentives_usd + q.to_bal_incentives_usd
                            = p.to_aura_incentives_usd + p.to_bal_incentives_usd

\* C24: each _handle_aura_min invocation leaves every pool's total, redirected,
\* DAO and veBAL amounts and share as they were, and the sum of its aura and
\* bal amounts too
C24_KeepsAllButMarkets == [][KeepsAllButMarkets]_vars

\* an invocation moved a pool to bal and repaid the debt into another pool
C24_Witness ==
    /\ pc \in {"relaxed", "done"}
    /\ fee_config.min_aura_incentive > 0
    /\ \E c \in ChainIdx :
          /\ debt_repaid[c] > 0
          /\ \E i, j \in PoolIdx(c) :
                /\ core_pools[c][i].total_to_incentives_usd > 0
                /\ core_pools[c][i].to_aura_incentives_usd = 0
                /\ core_pools[c][j].to_aura_incentives_usd
                      > core_pools[c][j].to_bal_incentives_usd

\* C25: with min_aura_incentive > 0, one more strict invocation on the state
\* the two invocations left finds no debt and changes no pool
C25_StrictFixedPoint ==
    pc = "done" /\ fee_config.min_aura_incentive > 0 =>
        \A c \in ChainIdx :
            LET again == HandleAuraMinChain(core_pools[c], StrictFloorOf(fee_config))
            IN  /\ again.pools = core_pools[c]
                /\ again.debt = 0
                /\ again.repaid = 0

\* the run ended with debt of the strict invocation left unrepaid
C25_Witness ==
    /\ pc = "done"
    /\ fee_config.min_aura_incentive > 0
    /\ \E c \in ChainIdx :
          /\ debt_to_aura[c] > debt_repaid[c]
          /\ \E i \in PoolIdx(c) : core_pools[c][i].to_aura_incentives_usd > 0

\* C26: no pool amount is ever negative
C26_AmountsNotNegative ==
    \A c \in ChainIdx : \A i \in PoolIdx(c) :
        LET p == core_pools[c][i]
        IN  /\ p.total_to_incentives_usd >= 0
            /\ p.to_aura_incentives_usd >= 0
            /\ p.to_bal_incentives_usd >= 0
            /\ p.to_dao_usd >= 0
            /\ p.to_vebal_usd >= 0

\* a repayment took the whole bal amount of a pool: its share of the debt
\* was larger
C26_Witness ==
    /\ pc = "done"
    /\ fee_config.min_aura_incentive > 0
    /\ \E c \in ChainIdx :
          /\ debt_repaid[c] > 0
          /\ debt_repaid[c] < debt_to_aura[c]
          /\ \E i \in PoolIdx(c) :
                /\ core_pools[c][i].to_aura_incentives_usd > 0
                /\ core_pools[c][i].to_bal_incentives_usd = 0

(***************************************************************************)
(* Run-level aggregates of CorePoolRunConfig, read by the csv generators   *)
(***************************************************************************)

\* Python's sum of a list of Decimals: it starts from the int 0, so the
\* result is a Decimal only if the list has an element
PySum(values) == [is_decimal |-> Len(values) > 0, value |-> SumSeq(values)]

\* the round decorator: TypeError for a result that is not a Decimal, else
\* the result quantized to the given number of decimal places
round(result, decimals) ==
    IF ~result.is_decimal
    THEN [raises |-> "TypeError", coefficient |-> 0, exponent |-> 0]
    ELSE [raises |-> "none",
          coefficient |-> result.value * (10 ^ decimals),
          exponent |-> 0 - decimals]

\* "for chain in self.all_chains for pool in chain.core_pools"
RECURSIVE AllPools(_)
AllPools(lists) ==
    IF Len(lists) = 0 THEN <<>> ELSE Head(lists) \o AllPools(Tail(lists))

total_to_dao_usd ==
    round(PySum(MapSeq(LAMBDA p : p.to_dao_usd, AllPools(core_pools))), 4)

RunConfigTotalToIncentivesUsd ==
    round(PySum(MapSeq(LAMBDA p : p.total_to_incentives_usd + p.to_dao_usd
                                      + p.to_vebal_usd,
                       AllPools(core_pools))), 4)

total_fees_collected_usd ==
    round(PySum(MapSeq(LAMBDA chain : chain.fees_collected, chains)), 4)

\* the first of the reads that raises, in the order of the reads
FirstError(reads) ==
    IF \E k \in DOMAIN reads : reads[k].raises # "none"
    THEN reads[CHOOSE k \in DOMAIN reads :
                   /\ reads[k].raises # "none"
                   /\ \A j \in DOMAIN reads : j < k => reads[j].raises = "none"].raises
    ELSE "none"

\* generate_incentives_csv, as far as the aggregates go: it logs
\* total_fees_collected_usd and total_to_incentives_usd
generate_incentives_csv ==
    /\ pc = "done"
    /\ pc' = "incentives"
    /\ error' = FirstError(<<total_fees_collected_usd, RunConfigTotalToIncentivesUsd>>)
    /\ UNCHANGED <<fee_config, aura_vebal_share, overrides, chains, core_pools,
                   debt_to_aura, debt_repaid, market, core_pool, pool_earned>>

\* generate_bribe_csv, as far as the aggregates go: the DAO row holds
\* total_to_dao_usd, then the same two totals are logged
generate_bribe_csv ==
    /\ pc = "incentives"
    /\ error = "none"
    /\ pc' = "bribes"
    /\ error' = FirstError(<<total_to_dao_usd, total_fees_collected_usd,
                             RunConfigTotalToIncentivesUsd>>)
    /\ UNCHANGED <<fee_config, aura_vebal_share, overrides, chains, core_pools,
                   debt_to_aura, debt_repaid, market, core_pool, pool_earned>>

NextTotals ==
    \/ Next
    \/ generate_incentives_csv
    \/ generate_bribe_csv

SpecTotals == Init /\ [][NextTotals]_vars

\* an aggregate that is a decimal with four places
IsRounded(total) == total.raises = "none" /\ total.exponent = -4

\* C27: once the csv generators have read them, total_to_dao_usd,
\* total_to_incentives_usd and total_fees_collected_usd are each a decimal
\* with four decimal places and no error was raised; in a run where no chain
\* has a pool the first two are 0.0000
C27_TotalsAlwaysRounded ==
    pc \in {"incentives", "bribes"} =>
        /\ error = "none"
        /\ IsRounded(total_to_dao_usd)
        /\ IsRounded(RunConfigTotalToIncentivesUsd)
        /\ IsRounded(total_fees_collected_usd)
        /\ Len(AllPools(core_pools)) = 0 =>
              /\ total_to_dao_usd.coefficient = 0
              /\ RunConfigTotalToIncentivesUsd.coefficient = 0

====
